---- MODULE Spec2Model ----
(***************************************************************************)
(* A model of the wp-agent tool gateway (src/agent/app.py, src/config.py): *)
(* the POST /a2a/task dispatcher, its API-key gate, the argument           *)
(* extraction helper, the WP-CLI runner, the sixteen tool handlers and the *)
(* sandboxed file tools, over a small POSIX-like file system.  A request   *)
(* of the model is one that reaches the view function: the layers Flask    *)
(* puts in front of it (routing, CORS, the rate limiter) are not modelled. *)
(*                                                                         *)
(* Python values are encoded as records [type, val] whose val is always a  *)
(* string, so that values of different Python types can sit in one set.    *)
(* Strings are TLA+ strings; Len, Head, Tail, SubSeq and \o act on them    *)
(* character by character.                                                 *)
(***************************************************************************)
EXTENDS Integers, Sequences, FiniteSets, TLC

VARIABLES
    apiKey,     \* A2A_API_KEY as loaded from the configuration ("" when unset)
    fs,         \* regular files: real path -> content
    request,    \* the request most recently handled
    response,   \* the response to it: [code, body]
    effects,    \* what handling it did: handler entered, processes, files opened
    now,        \* wall clock, in seconds
    monitor,    \* history kept for the temporal claims (not program state)
    inflight    \* the file-tool calls running concurrently, one per worker thread

vars == <<apiKey, fs, request, response, effects, now, monitor, inflight>>

----------------------------------------------------------------------------
(* Bounds of the model *)

MaxContentLen == 2      \* longest file content (append_to_file grows files)
MaxNow == 90            \* the clock stops here
MaxFailRun == 6         \* the consecutive-failure count saturates here
TickSeconds == 30       \* granularity of the clock
MaxThreads == 3         \* worker threads handling requests at the same time

----------------------------------------------------------------------------
(* Python values *)

JStr(s) == [type |-> "str", val |-> s]
JInt(s) == [type |-> "int", val |-> s]
JDict(s) == [type |-> "dict", val |-> s]
JList(s) == [type |-> "list", val |-> s]
JNone == [type |-> "NoneType", val |-> "None"]

\* str(v), as the f-strings and str() calls of the handlers render a value
PyStr(v) == v.val

\* bool(v): None, "", 0, {} and [] are falsy
Truthy(v) == ~(v.type = "NoneType" \/ v.val \in {"", "0", "{}", "[]"})

StartsWith(s, p) == Len(p) <= Len(s) /\ SubSeq(s, 1, Len(p)) = p

RECURSIVE lstrip(_, _)
lstrip(s, chars) ==
    IF s # "" /\ Head(s) \in chars THEN lstrip(Tail(s), chars) ELSE s

RECURSIVE rstrip(_, _)
rstrip(s, chars) ==
    IF s # "" /\ SubSeq(s, Len(s), Len(s)) \in chars
    THEN rstrip(SubSeq(s, 1, Len(s) - 1), chars)
    ELSE s

Whitespace == {" ", "\n", "\t"}

\* str.strip()
strip(s) == rstrip(lstrip(s, Whitespace), Whitespace)

\* str.capitalize() over the letters the model's post types use
Upper(c) ==
    CASE c = "p" -> "P" [] c = "x" -> "X" [] c = "n" -> "N" [] OTHER -> c

capitalize(s) == IF s = "" THEN s ELSE Upper(Head(s)) \o Tail(s)

----------------------------------------------------------------------------
(* Configuration: src/config.py *)

WP_PATH == "/var/www/html"

\* Directories and symbolic links of the modelled file system; they do not
\* change.  /var/www/html2 is a sibling of the sandbox root whose name starts
\* with the root's name; lnk is a link inside the sandbox that leads out of
\* it, cur a link inside the sandbox that stays in it.
Dirs == {"/", "/var", "/var/www", "/var/www/html", "/var/www/html2", "/etc"}

Symlinks ==
    ("/var/www/html/lnk" :> "/etc") @@ ("/var/www/html/cur" :> "a.txt")

\* Regular files present when the service starts
InitialFiles ==
    ("/var/www/html/a.txt" :> "A") @@ ("/var/www/html2/s.txt" :> "S")
        @@ ("/etc/passwd" :> "P")

----------------------------------------------------------------------------
(* posixpath *)

RECURSIVE SplitFrom(_, _, _)
SplitFrom(s, cur, acc) ==
    IF s = "" THEN Append(acc, cur)
    ELSE IF Head(s) = "/" THEN SplitFrom(Tail(s), "", Append(acc, cur))
    ELSE SplitFrom(Tail(s), cur \o Head(s), acc)

\* s.split('/')
split(s) == SplitFrom(s, "", <<>>)

RECURSIVE JoinSep(_)
\* '/'.join(comps)
JoinSep(comps) ==
    IF comps = <<>> THEN ""
    ELSE IF Len(comps) = 1 THEN comps[1]
    ELSE comps[1] \o "/" \o JoinSep(Tail(comps))

isabs(s) == StartsWith(s, "/")

RECURSIVE NormComps(_, _, _)
\* the loop of posixpath.normpath over the components
NormComps(comps, initial_slashes, new_comps) ==
    IF comps = <<>> THEN new_comps
    ELSE LET comp == Head(comps)
             n == Len(new_comps)
         IN  IF comp \in {"", "."}
             THEN NormComps(Tail(comps), initial_slashes, new_comps)
             ELSE IF comp # ".."
                     \/ (initial_slashes = 0 /\ n = 0)
                     \/ (n > 0 /\ new_comps[n] = "..")
             THEN NormComps(Tail(comps), initial_slashes, Append(new_comps, comp))
             ELSE IF n > 0
             THEN NormComps(Tail(comps), initial_slashes, SubSeq(new_comps, 1, n - 1))
             ELSE NormComps(Tail(comps), initial_slashes, new_comps)

\* os.path.normpath
normpath(path) ==
    IF path = "" THEN "."
    ELSE LET initial_slashes ==
                 IF ~StartsWith(path, "/") THEN 0
                 ELSE IF StartsWith(path, "//") /\ ~StartsWith(path, "///") THEN 2
                 ELSE 1
             body == JoinSep(NormComps(split(path), initial_slashes, <<>>))
             full == (IF initial_slashes = 2 THEN "//"
                      ELSE IF initial_slashes = 1 THEN "/" ELSE "") \o body
         IN  IF full = "" THEN "." ELSE full

\* os.path.join(a, b)
join(a, b) ==
    IF isabs(b) THEN b
    ELSE IF a = "" \/ SubSeq(a, Len(a), Len(a)) = "/" THEN a \o b
    ELSE a \o "/" \o b

AbsOf(comps) == "/" \o JoinSep(comps)

RECURSIVE _joinrealpath(_, _)
\* posixpath._joinrealpath: path is the resolved prefix (as components of an
\* absolute path), rest the components still to walk.  A component that does
\* not exist is not a link and is kept.
_joinrealpath(path, rest) ==
    IF rest = <<>> THEN path
    ELSE LET name == Head(rest)
             more == Tail(rest)
             newpath == Append(path, name)
         IN  IF name \in {"", "."} THEN _joinrealpath(path, more)
             ELSE IF name = ".."
             THEN _joinrealpath(IF path = <<>> THEN path
                                ELSE SubSeq(path, 1, Len(path) - 1), more)
             ELSE IF AbsOf(newpath) \in DOMAIN Symlinks
             THEN LET target == Symlinks[AbsOf(newpath)]
                  IN  _joinrealpath(IF isabs(target) THEN <<>> ELSE path,
                                    split(target) \o more)
             ELSE _joinrealpath(newpath, more)

\* os.path.realpath of an absolute path
realpath(filename) == AbsOf(_joinrealpath(<<>>, split(filename)))

\* os.path.dirname of an absolute path
dirname(p) ==
    LET comps == split(p)
    IN  IF Len(comps) <= 2 THEN "/" ELSE JoinSep(SubSeq(comps, 1, Len(comps) - 1))

SAFE_BASE_PATH == realpath(WP_PATH)

\* The containment the file tools are meant to enforce: the path is the
\* sandbox root or lies below it.
InsideSandbox(p) == p = SAFE_BASE_PATH \/ StartsWith(p, SAFE_BASE_PATH \o "/")


----------------------------------------------------------------------------
(* Requests, responses, exceptions *)

\* A header or a JSON field that is not there
NoField == [type |-> "absent", val |-> ""]

\* headers.get / dict.get: None when the field is absent
Get(field) == IF field.type = "absent" THEN JNone ELSE field

\* The result of one statement of a handler: the exception it raised (exc
\* "none" when it returned), the value it returned, and the external process
\* it ran, if it is a subprocess call.
NoProc == [argv |-> <<>>, started |-> FALSE, rc |-> 0, out |-> "", err |-> ""]
NoExc == [exc |-> "none", msg |-> "", value |-> JNone, proc |-> NoProc]
Raise(kind, text) == [exc |-> kind, msg |-> text, value |-> JNone, proc |-> NoProc]
Return(v) == [exc |-> "none", msg |-> "", value |-> v, proc |-> NoProc]

\* The first raised exception among the results of a sequence of statements
\* that run in order, or NoExc when none raised
RECURSIVE FirstExc(_)
FirstExc(results) ==
    IF results = <<>> THEN NoExc
    ELSE IF Head(results).exc # "none" THEN Head(results)
    ELSE FirstExc(Tail(results))

\* An error envelope whose text sits under the wrong key
ErrorEnvelopeMisnamed(text) == [status |-> "error", error |-> text]

ErrorEnvelope(text) == [status |-> "error", message |-> text]

\* What handling a request did: the tool handler entered ("" when none), the
\* subprocess calls made, the files opened, the exception raised inside the
\* handler and who caught it; env is what the environment was ready to answer
\* to the handler.
NoEnv == [procs |-> <<>>, io |-> "ok"]

NoEffects ==
    [handler |-> "", cmds |-> <<>>, opened |-> {}, raised |-> "none",
     caught_by |-> "", env |-> NoEnv]

\* The subprocess calls made by statements that run in order and stop at the
\* first exception
RECURSIVE ProcsOf(_)
ProcsOf(results) ==
    IF results = <<>> THEN <<>>
    ELSE (IF Head(results).proc.argv # <<>> THEN <<Head(results).proc>> ELSE <<>>)
             \o (IF Head(results).exc = "none" THEN ProcsOf(Tail(results)) ELSE <<>>)

\* What a tool handler hands back: the envelope it returns, the external
\* processes it ran, the files it opened, the exception raised inside it and
\* caught by its own except clause (raised), the exception that left it
\* (escaped) and the files afterwards.
HandlerResult(body, cmds, opened, raised, files) ==
    [body |-> body, cmds |-> cmds, opened |-> opened, raised |-> raised,
     escaped |-> NoExc, files |-> files]

\* try: <steps>; return success  except Exception as e: return error(str(e))
TryExcept(steps, success, files) ==
    LET e == FirstExc(steps)
    IN  HandlerResult(IF e.exc = "none" THEN success ELSE ErrorEnvelope(e.msg),
                      ProcsOf(steps), {}, e.exc, files)

----------------------------------------------------------------------------
(* get_tool_arg *)

\* get_tool_arg with the check of `required` left out: the default is bound
get_tool_arg_unchecked(data, arg_name, default, required, arg_type) ==
    IF data.argsKind = "null"
    THEN Raise("TypeError", "argument of type 'NoneType' is not iterable")
    ELSE
    LET args == data.args
        value == IF arg_name \in DOMAIN args THEN args[arg_name] ELSE default
    IN  IF value.type # "NoneType" /\ arg_type # "any" /\ value.type # arg_type
        THEN Raise("ValueError",
                   "Argument '" \o arg_name \o "' must be of type " \o arg_type
                       \o ", got " \o value.type)
        ELSE Return(value)

\* data['args'] lookups.  data.get('args', {}) is {} when the key is absent
\* and None when the body says "args": null; `name in None` is a TypeError.
get_tool_arg(data, arg_name, default, required, arg_type) ==
    IF data.argsKind = "null"
    THEN Raise("TypeError", "argument of type 'NoneType' is not iterable")
    ELSE
    LET args == data.args
        present == arg_name \in DOMAIN args
        value == IF present THEN args[arg_name] ELSE default
    IN  IF ~present /\ required
        THEN Raise("ValueError", "Missing required argument: " \o arg_name)
        ELSE IF value.type = "NoneType" /\ required /\ default.type = "NoneType"
        THEN Raise("ValueError", "Missing required argument: " \o arg_name)
        ELSE IF value.type # "NoneType" /\ arg_type # "any" /\ value.type # arg_type
        THEN Raise("ValueError",
                   "Argument '" \o arg_name \o "' must be of type " \o arg_type
                       \o ", got " \o value.type)
        ELSE Return(value)

----------------------------------------------------------------------------
(* run_wp_cli_command *)

\* json.loads over the outputs the modelled WP-CLI prints
JsonLoads(output) ==
    CASE output = "123" -> Return(JInt("123"))
      [] output = "\"v\"" -> Return(JStr("v"))
      [] output = "{\"php_version\": \"8.2\"}" -> Return(JDict(output))
      [] output = "[]" -> Return(JList(output))
      [] output = "[{\"name\": \"t\"}]" -> Return(JList(output))
      [] OTHER -> Raise("JSONDecodeError", "Expecting value")

\* One run of an external process, as the environment decides it:
\* kind "exit" with a return code and the captured streams, or kind "oserror"
\* when the process could not be started at all.
ProcExit(rc, out, err) == [kind |-> "exit", rc |-> rc, out |-> out, err |-> err]
ProcOsError == [kind |-> "oserror", rc |-> 0, out |-> "", err |-> ""]

\* A record of one subprocess.run call: the argument vector and whether the
\* process was started
Proc(argv, o) ==
    [argv |-> argv, started |-> o.kind = "exit", rc |-> o.rc, out |-> o.out,
     err |-> o.err]

\* run_wp_cli_command reporting stderr only, with no fallback to stdout
run_wp_cli_command_stderr_only(args, decode_json, o) ==
    LET base_command == <<"wp", "--path=" \o WP_PATH, "--allow-root">>
        command == base_command \o args
        output == strip(o.out)
        decoded == IF output # "" THEN JsonLoads(output) ELSE Return(JDict("{}"))
        result ==
            IF o.kind = "oserror"
            THEN Raise("Exception",
                       "Unexpected WP-CLI Error: [Errno 2] No such file or directory: 'wp'")
            ELSE IF o.rc # 0
            THEN Raise("Exception", "WP-CLI Error: " \o strip(o.err))
            ELSE IF decode_json
            THEN IF decoded.exc = "none" THEN decoded
                 ELSE Raise("Exception", "WP-CLI JSON Decode Error: " \o output)
            ELSE Return(JStr(output))
    IN  [exc |-> result.exc, msg |-> result.msg, value |-> result.value,
         proc |-> Proc(command, o)]

run_wp_cli_command(args, decode_json, o) ==
    LET base_command == <<"wp", "--path=" \o WP_PATH, "--allow-root">>
        command == base_command \o args
        output == strip(o.out)
        decoded == IF output # "" THEN JsonLoads(output) ELSE Return(JDict("{}"))
        result ==
            IF o.kind = "oserror"
            THEN Raise("Exception",
                       "Unexpected WP-CLI Error: [Errno 2] No such file or directory: 'wp'")
            ELSE IF o.rc # 0
            THEN Raise("Exception",
                       "WP-CLI Error: "
                           \o (IF strip(o.err) # "" THEN strip(o.err) ELSE strip(o.out)))
            ELSE IF decode_json
            THEN IF decoded.exc = "none" THEN decoded
                 ELSE Raise("Exception", "WP-CLI JSON Decode Error: " \o output)
            ELSE Return(JStr(output))
    IN  [exc |-> result.exc, msg |-> result.msg, value |-> result.value,
         proc |-> Proc(command, o)]


----------------------------------------------------------------------------
(* Tool handlers that run WP-CLI.  env.procs[i] is the outcome of the i-th
   subprocess call a handler makes.  Arguments the code leaves at the
   defaults of get_tool_arg's signature (default=None, required=True,
   arg_type=None) are passed here as JNone, TRUE and "any". *)

\* subprocess.run without check=True: a nonzero exit raises nothing
SysRun_unchecked(argv, o) ==
    LET result ==
            IF o.kind = "oserror"
            THEN Raise("FileNotFoundError", "[Errno 2] No such file or directory")
            ELSE Return(JStr(strip(o.out)))
    IN  [exc |-> result.exc, msg |-> result.msg, value |-> result.value,
         proc |-> Proc(argv, o)]

\* subprocess.run([...], check=True) outside run_wp_cli_command
SysRun(argv, o) ==
    LET result ==
            IF o.kind = "oserror"
            THEN Raise("FileNotFoundError", "[Errno 2] No such file or directory")
            ELSE IF o.rc # 0
            THEN Raise("CalledProcessError", "Command returned non-zero exit status 1.")
            ELSE Return(JStr(strip(o.out)))
    IN  [exc |-> result.exc, msg |-> result.msg, value |-> result.value,
         proc |-> Proc(argv, o)]

\* php_version_raw.get('php_version', 'N/A')
DictGet(d, key, default) ==
    IF d.type # "dict"
    THEN Raise("AttributeError", "'" \o d.type \o "' object has no attribute 'get'")
    ELSE IF d.val = "{\"php_version\": \"8.2\"}" /\ key = "php_version"
    THEN Return(JStr("8.2"))
    ELSE Return(default)

get_system_information(data, env, files) ==
    LET os_version == SysRun(<<"uname", "-a">>, env.procs[1])
        python_version == SysRun(<<"python3", "--version">>, env.procs[2])
        php_version_raw ==
            run_wp_cli_command(<<"cli", "info", "--format=json">>, TRUE, env.procs[3])
        php_version == DictGet(php_version_raw.value, "php_version", JStr("N/A"))
        wp_version_raw == run_wp_cli_command(<<"core", "version">>, FALSE, env.procs[4])
        wp_cli_version_raw == run_wp_cli_command(<<"cli", "version">>, FALSE, env.procs[5])
        info == [os_version |-> os_version.value.val,
                 python_version |-> python_version.value.val,
                 php_version |-> php_version.value.val,
                 wordpress_version |-> wp_version_raw.value.val,
                 wp_cli_version |-> wp_cli_version_raw.value.val]
    IN  TryExcept(<<os_version, python_version, php_version_raw, php_version,
                    wp_version_raw, wp_cli_version_raw>>,
                  [status |-> "success", data |-> info], files)

create_wordpress_post(data, env, files) ==
    LET title == get_tool_arg(data, "title", JNone, TRUE, "str")
        content == get_tool_arg(data, "content", JNone, TRUE, "str")
        status == get_tool_arg(data, "status", JStr("publish"), TRUE, "str")
        post_type == get_tool_arg(data, "post_type", JStr("post"), TRUE, "str")
        cmd_args == <<"post", "create",
                      "--post_title=" \o PyStr(title.value),
                      "--post_content=" \o PyStr(content.value),
                      "--post_status=" \o PyStr(status.value),
                      "--post_type=" \o PyStr(post_type.value),
                      "--porcelain">>
        post_id == run_wp_cli_command(cmd_args, FALSE, env.procs[1])
        capitalized ==
            IF post_type.value.type = "NoneType"
            THEN Raise("AttributeError",
                       "'NoneType' object has no attribute 'capitalize'")
            ELSE Return(JStr(capitalize(post_type.value.val)))
    IN  TryExcept(<<title, content, status, post_type, post_id, capitalized>>,
                  [status |-> "success",
                   message |-> capitalized.value.val
                                   \o " created successfully with ID: "
                                   \o post_id.value.val,
                   post_id |-> post_id.value.val],
                  files)

\* The handlers that take one slug and run one command with it:
\* activate/deactivate/delete plugin, activate/delete theme
SlugCommand(data, env, files, arg_name, family, verb) ==
    LET slug == get_tool_arg(data, arg_name, JNone, TRUE, "str")
        result == run_wp_cli_command(<<family, verb, PyStr(slug.value)>>, FALSE,
                                     env.procs[1])
    IN  TryExcept(<<slug, result>>,
                  [status |-> "success", message |-> result.value.val], files)

activate_wordpress_plugin(data, env, files) ==
    SlugCommand(data, env, files, "plugin_slug", "plugin", "activate")

deactivate_wordpress_plugin(data, env, files) ==
    SlugCommand(data, env, files, "plugin_slug", "plugin", "deactivate")

delete_wordpress_plugin(data, env, files) ==
    SlugCommand(data, env, files, "plugin_slug", "plugin", "delete")

activate_wordpress_theme(data, env, files) ==
    SlugCommand(data, env, files, "theme_slug", "theme", "activate")

delete_wordpress_theme(data, env, files) ==
    SlugCommand(data, env, files, "theme_slug", "theme", "delete")

\* install plugin / install theme: a slug and an optional version
InstallCommand(data, env, files, arg_name, family) ==
    LET slug == get_tool_arg(data, arg_name, JNone, TRUE, "str")
        version == get_tool_arg(data, "version", JNone, FALSE, "str")
        cmd_args == <<family, "install", PyStr(slug.value)>>
                        \o (IF Truthy(version.value)
                            THEN <<"--version", PyStr(version.value)>> ELSE <<>>)
        result == run_wp_cli_command(cmd_args, FALSE, env.procs[1])
    IN  TryExcept(<<slug, version, result>>,
                  [status |-> "success", message |-> result.value.val], files)

install_wordpress_plugin(data, env, files) ==
    InstallCommand(data, env, files, "plugin_slug", "plugin")

install_wordpress_theme(data, env, files) ==
    InstallCommand(data, env, files, "theme_slug", "theme")

get_wordpress_option(data, env, files) ==
    LET option_name == get_tool_arg(data, "option_name", JNone, TRUE, "str")
        value == run_wp_cli_command(
                     <<"option", "get", PyStr(option_name.value), "--format=json">>,
                     TRUE, env.procs[1])
    IN  TryExcept(<<option_name, value>>,
                  [status |-> "success", option_name |-> option_name.value.val,
                   value |-> value.value],
                  files)

update_wordpress_option(data, env, files) ==
    LET option_name == get_tool_arg(data, "option_name", JNone, TRUE, "str")
        option_value == get_tool_arg(data, "option_value", JNone, TRUE, "any")
        cmd_args == <<"option", "update", PyStr(option_name.value)>>
                        \o (IF option_value.value.type \in {"dict", "list"}
                            THEN <<option_value.value.val, "--format=json">>
                            ELSE <<PyStr(option_value.value)>>)
        result == run_wp_cli_command(cmd_args, FALSE, env.procs[1])
    IN  TryExcept(<<option_name, option_value, result>>,
                  [status |-> "success", message |-> result.value.val], files)

list_wordpress_themes(data, env, files) ==
    LET themes == run_wp_cli_command(<<"theme", "list", "--format=json">>, TRUE,
                                     env.procs[1])
    IN  TryExcept(<<themes>>, [status |-> "success", data |-> themes.value], files)

\* themes[0] if themes else None
FirstOrNone(themes) ==
    IF ~Truthy(themes) THEN Return(JNone)
    ELSE CASE themes.type = "list" -> Return(JDict("{\"name\": \"t\"}"))
           [] themes.type = "str" -> Return(JStr(Head(themes.val)))
           [] themes.type = "dict" -> Raise("KeyError", "0")
           [] OTHER -> Raise("TypeError",
                             "'" \o themes.type \o "' object is not subscriptable")

get_active_wordpress_theme(data, env, files) ==
    LET themes == run_wp_cli_command(
                      <<"theme", "list", "--status=active", "--format=json">>, TRUE,
                      env.procs[1])
        first == FirstOrNone(themes.value)
    IN  TryExcept(<<themes, first>>, [status |-> "success", data |-> first.value],
                  files)


----------------------------------------------------------------------------
(* File tools.  env.io is what the operating system answers to an open()
   that names a path it could open: "ok", or "eacces" when the process lacks
   the permission. *)

_validate_file_path(file_path_str) ==
    LET abs_file_path ==
            join(SAFE_BASE_PATH, normpath(lstrip(file_path_str, {"/", "\\"})))
        real_abs_file_path == realpath(abs_file_path)
    IN  IF ~StartsWith(real_abs_file_path, SAFE_BASE_PATH)
        THEN Raise("PermissionError",
                   "File access denied: Path '" \o file_path_str
                       \o "' is outside the allowed directory '" \o WP_PATH \o "'.")
        ELSE Return(JStr(real_abs_file_path))

exists(files, p) == p \in Dirs \/ p \in DOMAIN files
isfile(files, p) == p \in DOMAIN files

\* open(p, mode): the exception it raises, or NoExc
Open(files, p, mode, io) ==
    IF p \in Dirs
    THEN Raise("IsADirectoryError", "[Errno 21] Is a directory: '" \o p \o "'")
    ELSE IF dirname(p) \in DOMAIN files
    THEN Raise("NotADirectoryError", "[Errno 20] Not a directory: '" \o p \o "'")
    ELSE IF dirname(p) \notin Dirs \/ (mode = "r" /\ p \notin DOMAIN files)
    THEN Raise("FileNotFoundError",
               "[Errno 2] No such file or directory: '" \o p \o "'")
    ELSE IF io = "eacces"
    THEN Raise("PermissionError", "[Errno 13] Permission denied: '" \o p \o "'")
    ELSE NoExc

\* The files after f.write(content) on a file opened with mode "w" or "a"
Written(files, p, mode, content) ==
    LET old == IF mode = "a" /\ p \in DOMAIN files THEN files[p] ELSE ""
    IN  [q \in DOMAIN files \cup {p} |-> IF q = p THEN old \o content ELSE files[q]]

read_file(data, env, files) ==
    LET file_path_str == get_tool_arg(data, "file_path", JNone, TRUE, "str")
        target_file_path == _validate_file_path(file_path_str.value.val)
        target == target_file_path.value.val
        before == FirstExc(<<file_path_str, target_file_path>>)
        opening == Open(files, target, "r", env.io)
    IN  IF before.exc # "none"
        THEN HandlerResult(ErrorEnvelope(before.msg), <<>>, {}, before.exc, files)
        ELSE IF ~exists(files, target)
        THEN HandlerResult(ErrorEnvelope("File not found: " \o file_path_str.value.val),
                           <<>>, {}, "none", files)
        ELSE IF ~isfile(files, target)
        THEN HandlerResult(
                 ErrorEnvelope("Path is not a file: " \o file_path_str.value.val),
                 <<>>, {}, "none", files)
        ELSE IF opening.exc # "none"
        THEN HandlerResult(ErrorEnvelope(opening.msg), <<>>, {}, opening.exc, files)
        ELSE HandlerResult([status |-> "success",
                            file_path |-> file_path_str.value.val,
                            content |-> files[target]],
                           <<>>, {[path |-> target, mode |-> "r"]}, "none", files)

\* edit_file (mode "w") and append_to_file (mode "a") differ only in the mode
\* and the message
WriteTool(data, env, files, mode, before_name, after_name) ==
    LET file_path_str == get_tool_arg(data, "file_path", JNone, TRUE, "str")
        content == get_tool_arg(data, "content", JNone, TRUE, "str")
        target_file_path == _validate_file_path(file_path_str.value.val)
        target == target_file_path.value.val
        before == FirstExc(<<file_path_str, content, target_file_path>>)
        opening == Open(files, target, mode, env.io)
    IN  IF before.exc # "none"
        THEN HandlerResult(ErrorEnvelope(before.msg), <<>>, {}, before.exc, files)
        ELSE IF opening.exc # "none"
        THEN HandlerResult(ErrorEnvelope(opening.msg), <<>>, {}, opening.exc, files)
        ELSE HandlerResult([status |-> "success",
                            message |-> before_name \o file_path_str.value.val
                                            \o after_name],
                           <<>>, {[path |-> target, mode |-> mode]}, "none",
                           Written(files, target, mode, content.value.val))

edit_file(data, env, files) ==
    WriteTool(data, env, files, "w", "File '", "' written successfully.")

append_to_file(data, env, files) ==
    WriteTool(data, env, files, "a", "Content appended to file '", "' successfully.")


----------------------------------------------------------------------------
(* Tool dispatcher *)

TOOLS ==
    {"get_system_information", "create_wordpress_post", "activate_wordpress_plugin",
     "read_file", "edit_file", "get_wordpress_option", "update_wordpress_option",
     "install_wordpress_theme", "activate_wordpress_theme", "list_wordpress_themes",
     "get_active_wordpress_theme", "delete_wordpress_theme", "append_to_file",
     "install_wordpress_plugin", "deactivate_wordpress_plugin",
     "delete_wordpress_plugin"}

\* A registry from which one tool was left out
RegisteredButOne(tool) == tool.type = "str" /\ tool.val \in TOOLS \ {"read_file"}

\* tool_name in TOOLS, for a tool field that is hashable
Registered(tool) == tool.type = "str" /\ tool.val \in TOOLS

\* TOOLS[tool_name](data)
CallTool(tool_name, data, env, files) ==
    CASE tool_name = "get_system_information" -> get_system_information(data, env, files)
      [] tool_name = "create_wordpress_post" -> create_wordpress_post(data, env, files)
      [] tool_name = "activate_wordpress_plugin" ->
             activate_wordpress_plugin(data, env, files)
      [] tool_name = "read_file" -> read_file(data, env, files)
      [] tool_name = "edit_file" -> edit_file(data, env, files)
      [] tool_name = "get_wordpress_option" -> get_wordpress_option(data, env, files)
      [] tool_name = "update_wordpress_option" ->
             update_wordpress_option(data, env, files)
      [] tool_name = "install_wordpress_theme" ->
             install_wordpress_theme(data, env, files)
      [] tool_name = "activate_wordpress_theme" ->
             activate_wordpress_theme(data, env, files)
      [] tool_name = "list_wordpress_themes" -> list_wordpress_themes(data, env, files)
      [] tool_name = "get_active_wordpress_theme" ->
             get_active_wordpress_theme(data, env, files)
      [] tool_name = "delete_wordpress_theme" -> delete_wordpress_theme(data, env, files)
      [] tool_name = "append_to_file" -> append_to_file(data, env, files)
      [] tool_name = "install_wordpress_plugin" ->
             install_wordpress_plugin(data, env, files)
      [] tool_name = "deactivate_wordpress_plugin" ->
             deactivate_wordpress_plugin(data, env, files)
      [] tool_name = "delete_wordpress_plugin" ->
             delete_wordpress_plugin(data, env, files)

\* What the view hands to Flask: the status code, the envelope, what was done
Answer(code, body, eff, files) ==
    [code |-> code, body |-> body, effects |-> eff, files |-> files]

\* result = tool_function(data); return jsonify(result), inside the try of
\* handle_a2a_task: an exception that leaves the handler is answered by the
\* except ValueError or the except Exception clause.
Respond(tool_name, result, env) ==
    LET code == IF result.escaped.exc = "none" THEN 200
                ELSE IF result.escaped.exc = "ValueError" THEN 400 ELSE 500
        body == IF result.escaped.exc = "none" THEN result.body
                ELSE IF result.escaped.exc = "ValueError"
                THEN ErrorEnvelope("Invalid tool arguments: " \o result.escaped.msg)
                ELSE ErrorEnvelope("An internal error occurred: " \o result.escaped.msg)
        caught_by == IF result.escaped.exc # "none" THEN "dispatcher"
                     ELSE IF result.raised # "none" THEN "handler" ELSE ""
    IN  Answer(code, body,
               [handler |-> tool_name, cmds |-> result.cmds, opened |-> result.opened,
                raised |-> result.raised, caught_by |-> caught_by, env |-> env],
               result.files)

\* The body of handle_a2a_task, after the API-key gate.  data is the request
\* body: kind "unparseable" (get_json raises), "falsy" (null, {}, [], 0),
\* "nondict" (any other JSON value that is not an object) or "dict".
handle_a2a_task(data, env, files) ==
    IF data.kind \in {"unparseable", "falsy"}
    THEN Answer(400, ErrorEnvelope("Invalid JSON payload"), NoEffects, files)
    ELSE IF data.kind = "nondict"
    THEN Answer(500,
                ErrorEnvelope("An internal error occurred: "
                                  \o "'list' object has no attribute 'get'"),
                [NoEffects EXCEPT !.raised = "AttributeError",
                                  !.caught_by = "dispatcher"],
                files)
    ELSE IF ~Truthy(Get(data.tool))
    THEN Answer(400, ErrorEnvelope("Missing 'tool' field in request"), NoEffects,
                files)
    ELSE IF data.tool.type \in {"list", "dict"}
    THEN Answer(500,
                ErrorEnvelope("An internal error occurred: unhashable type: '"
                                  \o data.tool.type \o "'"),
                [NoEffects EXCEPT !.raised = "TypeError",
                                  !.caught_by = "dispatcher"],
                files)
    ELSE IF Registered(data.tool)
    THEN Respond(data.tool.val, CallTool(data.tool.val, data, env, files), env)
    ELSE Answer(404, ErrorEnvelope("Unknown tool: " \o PyStr(data.tool)),
                NoEffects, files)

\* The body parsed before the key is checked
require_api_key_after_parse(key, header, data, env, files) ==
    IF data.kind \in {"unparseable", "falsy"}
    THEN Answer(400, ErrorEnvelope("Invalid JSON payload"), NoEffects, files)
    ELSE IF key # "" /\ (~Truthy(Get(header)) \/ Get(header).val # key)
    THEN Answer(401, ErrorEnvelope("Unauthorized: Invalid or missing API Key"),
                NoEffects, files)
    ELSE handle_a2a_task(data, env, files)

\* The decorator checking only that a key was sent, not which
require_api_key_any(key, header, data, env, files) ==
    IF key # "" /\ ~Truthy(Get(header))
    THEN Answer(401, ErrorEnvelope("Unauthorized: Invalid or missing API Key"),
                NoEffects, files)
    ELSE handle_a2a_task(data, env, files)

\* The decorator: decorated_function around handle_a2a_task.  header is the
\* X-API-KEY header of the request, key the configured A2A_API_KEY ("" when
\* it is not set: the check is skipped).
require_api_key(key, header, data, env, files) ==
    IF key # "" /\ (~Truthy(Get(header)) \/ Get(header).val # key)
    THEN Answer(401, ErrorEnvelope("Unauthorized: Invalid or missing API Key"),
                NoEffects, files)
    ELSE handle_a2a_task(data, env, files)

health_check ==
    Answer(200, [status |-> "healthy", message |-> "Agent is running"], NoEffects,
           fs)


----------------------------------------------------------------------------
(* The inputs the model draws requests from *)

ApiKeys == {"", "test-key"}

Headers == {NoField, JStr(""), JStr("test-key"), JStr("wrong-key")}

Body(kind, tool, argsKind, args) ==
    [kind |-> kind, tool |-> tool, argsKind |-> argsKind, args |-> args]

NoArgs == [n \in {} |-> JNone]

\* Every way of giving or leaving out the arguments of `choices`, a function
\* from argument names to the values tried for each (NoField: left out)
ArgSets(choices) ==
    LET names == DOMAIN choices
        all == UNION {choices[n] : n \in names}
        total == {f \in [names -> all] : \A n \in names : f[n] \in choices[n]}
    IN  {[n \in {m \in names : f[m].type # "absent"} |-> f[n]] : f \in total}

\* Bodies naming `tool`: "args" an object, and "args" missing or null
ToolBodies(tool, choices) ==
    {Body("dict", JStr(tool), "dict", a) : a \in ArgSets(choices)}
        \cup {Body("dict", JStr(tool), k, NoArgs) : k \in {"absent", "null"}}

InvalidBodies ==
    {Body(k, NoField, "absent", NoArgs) : k \in {"unparseable", "falsy", "nondict"}}
        \cup {Body("dict", t, "absent", NoArgs) :
                 t \in {NoField, JNone, JStr(""), JStr("nonexistent_tool"),
                        JInt("5"), JList("[1]")}}

SystemBodies == ToolBodies("get_system_information", NoArgs)

PostBodies ==
    ToolBodies("create_wordpress_post",
               [title |-> {NoField, JStr("Test Post"), JInt("7")},
                content |-> {NoField, JStr("Test Content")},
                status |-> {NoField, JStr("draft")},
                post_type |-> {NoField, JStr("page"), JNone}])

SlugChoices == {NoField, JStr("x"), JInt("7")}

PluginBodies ==
    UNION {ToolBodies(t, [plugin_slug |-> SlugChoices]) :
              t \in {"activate_wordpress_plugin", "deactivate_wordpress_plugin",
                     "delete_wordpress_plugin"}}
        \cup ToolBodies("install_wordpress_plugin",
                        [plugin_slug |-> SlugChoices,
                         version |-> {NoField, JStr("1.0"), JInt("7")}])

ThemeBodies ==
    UNION {ToolBodies(t, [theme_slug |-> SlugChoices]) :
              t \in {"activate_wordpress_theme", "delete_wordpress_theme"}}
        \cup ToolBodies("install_wordpress_theme",
                        [theme_slug |-> SlugChoices,
                         version |-> {NoField, JStr("1.0"), JInt("7")}])

ThemeListBodies ==
    ToolBodies("list_wordpress_themes", NoArgs)
        \cup ToolBodies("get_active_wordpress_theme", NoArgs)

OptionBodies ==
    ToolBodies("get_wordpress_option",
               [option_name |-> {NoField, JStr("blogname"), JInt("7")}])
        \cup ToolBodies("update_wordpress_option",
                        [option_name |-> {NoField, JStr("blogname")},
                         option_value |-> {NoField, JStr("v"), JDict("{\"a\": 1}"),
                                           JNone}])

FileBodies(paths, contents) ==
    ToolBodies("read_file", [file_path |-> paths])
        \cup UNION {ToolBodies(t, [file_path |-> paths, content |-> contents]) :
                       t \in {"edit_file", "append_to_file"}}

\* What the external programs may do
OkId == ProcExit(0, "123\n", "")
OkText == ProcExit(0, "Success: done.\n", "")
OkEmpty == ProcExit(0, "", "")
OkJsonDict == ProcExit(0, "{\"php_version\": \"8.2\"}\n", "")
OkJsonList == ProcExit(0, "[{\"name\": \"t\"}]", "")
OkQuoted == ProcExit(0, "\"v\"\n", "")
FailStderr == ProcExit(1, "", "Error: failed.\n")
FailStdout == ProcExit(1, "partial", "")

Env(procs, io) == [procs |-> procs, io |-> io]


\* The five subprocess calls of get_system_information: all succeed, or the
\* k-th goes wrong in one of the ways `bad` lists for it
SysAllOk == <<OkText, OkText, OkJsonDict, OkText, OkText>>

SysEnvs ==
    {SysAllOk}
        \cup {[SysAllOk EXCEPT ![k] = FailStderr] : k \in 1..5}
        \cup {[SysAllOk EXCEPT ![1] = ProcOsError], [SysAllOk EXCEPT ![3] = OkText],
              [SysAllOk EXCEPT ![3] = OkId]}

----------------------------------------------------------------------------
(* State machine *)

NoRequest ==
    [body |-> Body("falsy", NoField, "absent", NoArgs), header |-> NoField, route |-> ""]

TaskRequest(header, data) == [body |-> data, header |-> header, route |-> "/a2a/task"]

HealthRequest == [NoRequest EXCEPT !.route = "/health"]

\* The response of an exchange that has not been answered yet
NoResponse == [code |-> 0, body |-> [status |-> ""]]

\* The history the temporal claims speak of.  failRun: how many WP-CLI
\* processes in a row have exited nonzero; lastFailAt: when the latest did;
\* lastRead: the body of the invocation just handled when it was a successful
\* get_wordpress_option (else empty), lastReadAt: when the latest successful
\* read was; mutated: the invocation just handled was a successful
\* update_wordpress_option; lastWrite: the file_path and content of the
\* invocation just handled when it was a successful edit_file (else empty).
\* saw: the history as it stood when the latest request was handled.
NoMonitor ==
    [failRun |-> 0, lastFailAt |-> 0, lastRead |-> <<>>, lastReadAt |-> 0,
     mutated |-> FALSE, lastWrite |-> <<>>,
     saw |-> [failRun |-> 0, sinceFail |-> 0, sameRead |-> FALSE, readAge |-> 0,
              mutated |-> FALSE, lastWrite |-> <<>>]]

\* The worker threads, and a thread that is handling nothing.  pc: where the
\* thread is in its handler; raw: the file_path of its request; target: the
\* validated path; buffer: what f.write has not handed to the operating
\* system yet; offset: the position of its file object; result: the envelope
\* it returned.
Threads == 1..MaxThreads

IdleThread ==
    [pc |-> "idle", tool |-> "", raw |-> "", content |-> "", target |-> "",
     buffer |-> "", offset |-> 0, result |-> [status |-> ""]]

Init ==
    /\ apiKey \in ApiKeys
    /\ fs = InitialFiles
    /\ request = NoRequest
    /\ response = NoResponse
    /\ effects = NoEffects
    /\ now = 0
    /\ monitor = NoMonitor
    /\ inflight = [t \in Threads |-> IdleThread]

\* A request has been sent and not answered yet
Pending == request.route # "" /\ response = NoResponse

\* The request has been answered
Answered == response.code # 0

\* A client sends a request: a new exchange starts.  The service handles one
\* request at a time here.
Send(req) ==
    /\ ~Pending
    /\ request' = req
    /\ response' = NoResponse
    /\ effects' = NoEffects
    /\ UNCHANGED <<apiKey, fs, now, monitor, inflight>>

\* The view function runs on the pending POST /a2a/task request, the
\* environment answering as env says
PostTask(env) ==
    /\ Pending
    /\ request.route = "/a2a/task"
    /\ \E a \in {require_api_key(apiKey, request.header, request.body, env, fs)} :
        /\ \A p \in DOMAIN a.files : Len(a.files[p]) <= MaxContentLen
        /\ response' = [code |-> a.code, body |-> a.body]
        /\ effects' = a.effects
        /\ fs' = a.files
    /\ UNCHANGED <<apiKey, request>>

\* The tool a request names, "" when it names none
ToolOf(req) ==
    IF req.body.kind = "dict" /\ req.body.tool.type = "str" THEN req.body.tool.val
    ELSE ""

SystemTools == {"get_system_information"}
PostTools == {"create_wordpress_post"}
PluginTools ==
    {"activate_wordpress_plugin", "deactivate_wordpress_plugin",
     "delete_wordpress_plugin", "install_wordpress_plugin"}
ThemeTools ==
    {"install_wordpress_theme", "activate_wordpress_theme", "delete_wordpress_theme"}
ThemeListTools == {"list_wordpress_themes", "get_active_wordpress_theme"}
OptionTools == {"get_wordpress_option", "update_wordpress_option"}
FileTools == {"read_file", "edit_file", "append_to_file"}

Unobserved == UNCHANGED <<now, monitor, inflight>>

\* Requests that name no registered tool
PostInvalid ==
    /\ ToolOf(request) \notin TOOLS
    /\ PostTask(Env(<<>>, "ok"))
    /\ Unobserved

PostSystemTool ==
    /\ ToolOf(request) \in SystemTools
    /\ \E procs \in SysEnvs : PostTask(Env(procs, "ok"))
    /\ Unobserved

PostPostTool ==
    /\ ToolOf(request) \in PostTools
    /\ \E o \in {OkId, FailStderr, ProcOsError} : PostTask(Env(<<o>>, "ok"))
    /\ Unobserved

PostPluginTool ==
    /\ ToolOf(request) \in PluginTools
    /\ \E o \in {OkText, FailStderr, FailStdout} : PostTask(Env(<<o>>, "ok"))
    /\ Unobserved

PostThemeTool ==
    /\ \/ /\ ToolOf(request) \in ThemeTools
          /\ \E o \in {OkText, FailStderr} : PostTask(Env(<<o>>, "ok"))
       \/ /\ ToolOf(request) \in ThemeListTools
          /\ \E o \in {OkJsonList, OkJsonDict, OkEmpty, OkId, OkText, FailStderr,
                       ProcOsError} :
                 PostTask(Env(<<o>>, "ok"))
    /\ Unobserved

OptionOutcomes == {OkQuoted, OkText, OkEmpty, FailStderr}

PostOptionTool ==
    /\ ToolOf(request) \in OptionTools
    /\ \E o \in OptionOutcomes : PostTask(Env(<<o>>, "ok"))
    /\ Unobserved

PostFileTool ==
    /\ ToolOf(request) \in FileTools
    /\ \E io \in {"ok", "eacces"} : PostTask(Env(<<>>, io))
    /\ Unobserved

\* GET /health
HealthCheck ==
    /\ Pending
    /\ request.route = "/health"
    /\ response' = [code |-> health_check.code, body |-> health_check.body]
    /\ effects' = health_check.effects
    /\ UNCHANGED <<apiKey, fs, request, now, monitor, inflight>>

\* The requests of the main specification: every header with every body
SpecBodies ==
    InvalidBodies \cup SystemBodies \cup PostBodies \cup PluginBodies
        \cup ThemeBodies \cup ThemeListBodies \cup OptionBodies
        \cup FileBodies({NoField, JStr("a.txt"), JStr("../../etc/passwd"), JInt("7")},
                        {NoField, JStr("A"), JInt("7")})

SendTask == \E h \in Headers, b \in SpecBodies : Send(TaskRequest(h, b))

SendHealth == Send(HealthRequest)

Next ==
    \/ SendTask
    \/ SendHealth
    \/ PostInvalid
    \/ PostSystemTool
    \/ PostPostTool
    \/ PostPluginTool
    \/ PostThemeTool
    \/ PostOptionTool
    \/ PostFileTool
    \/ HealthCheck

Spec == Init /\ [][Next]_vars

----------------------------------------------------------------------------
(* The file tools over the whole set of raw paths *)

RawPaths ==
    {JStr("a.txt"), JStr("/a.txt"), JStr("\\a.txt"), JStr("./a.txt"), JStr("cur"),
     JStr("new.txt"), JStr(""), JStr(".."), JStr("nodir/x.txt"), JStr("a.txt/x"),
     JStr("lnk/passwd"), JStr("../../../etc/passwd"), JStr("/etc/passwd"),
     JStr("../html2/s.txt"), JStr("../html/a.txt")}

Contents == {JStr("B")}

SendFileTask ==
    \E b \in FileBodies(RawPaths, Contents) : Send(TaskRequest(JStr("test-key"), b))

NextFiles == SendFileTask \/ PostFileTool

SpecFiles == Init /\ [][NextFiles]_vars

----------------------------------------------------------------------------
(* The option tools with the clock and the history *)

RECURSIVE FailRunAfter(_, _)
\* The run of consecutive nonzero exits after the processes of cmds
FailRunAfter(run, cmds) ==
    IF cmds = <<>> THEN run
    ELSE LET c == Head(cmds)
         IN  FailRunAfter(IF ~c.started THEN run
                          ELSE IF c.rc = 0 THEN 0
                          ELSE IF run < MaxFailRun THEN run + 1 ELSE run,
                          Tail(cmds))

Observe(m, req, resp, eff, t) ==
    LET isRead == ToolOf(req) = "get_wordpress_option"
        isWrite == ToolOf(req) = "update_wordpress_option"
        ok == resp.body.status = "success"
        failed == \E i \in 1..Len(eff.cmds) : eff.cmds[i].started /\ eff.cmds[i].rc # 0
    IN  [failRun |-> FailRunAfter(m.failRun, eff.cmds),
         lastFailAt |-> IF failed THEN t ELSE m.lastFailAt,
         lastRead |-> IF isRead /\ ok THEN <<req.body>> ELSE <<>>,
         lastReadAt |-> IF isRead /\ ok THEN t ELSE m.lastReadAt,
         mutated |-> isWrite /\ ok,
         lastWrite |-> IF ToolOf(req) = "edit_file" /\ ok THEN <<req.body.args>>
                       ELSE <<>>,
         saw |-> [failRun |-> m.failRun,
                  sinceFail |-> t - m.lastFailAt,
                  sameRead |-> isRead /\ m.lastRead = <<req.body>>,
                  readAge |-> t - m.lastReadAt,
                  mutated |-> m.mutated,
                  lastWrite |-> m.lastWrite]]

CliBodies ==
    {Body("dict", JStr("get_wordpress_option"), "dict", [option_name |-> JStr(n)]) :
        n \in {"blogname", "siteurl"}}
        \cup {Body("dict", JStr("update_wordpress_option"), "dict",
                   [option_name |-> JStr("blogname"), option_value |-> JStr("v")])}

SendCliTask == \E b \in CliBodies : Send(TaskRequest(JStr("test-key"), b))

\* PostOptionTool, with the history kept
ObservedOptionTool ==
    /\ ToolOf(request) \in OptionTools
    /\ \E o \in OptionOutcomes : PostTask(Env(<<o>>, "ok"))
    /\ monitor' = Observe(monitor, request, response', effects', now)
    /\ UNCHANGED <<now, inflight>>

\* Time passes
Tick ==
    /\ now + TickSeconds <= MaxNow
    /\ now' = now + TickSeconds
    /\ UNCHANGED <<apiKey, fs, request, response, effects, monitor, inflight>>

NextCli == SendCliTask \/ ObservedOptionTool \/ Tick

SpecCli == Init /\ [][NextCli]_vars

----------------------------------------------------------------------------
(* The file tools with the history: what the previous invocation wrote *)

ReadBackPaths ==
    {JStr("a.txt"), JStr("/a.txt"), JStr("cur"), JStr("new.txt"), JStr(".."),
     JStr("lnk/passwd"), JStr("../html2/s.txt")}

ReadBackContents == {JStr("B"), JStr("")}

SendReadBackTask ==
    \E b \in FileBodies(ReadBackPaths, ReadBackContents) :
        Send(TaskRequest(JStr("test-key"), b))

\* PostFileTool, with the history kept
ObservedFileTool ==
    /\ ToolOf(request) \in FileTools
    /\ \E io \in {"ok", "eacces"} : PostTask(Env(<<>>, io))
    /\ monitor' = Observe(monitor, request, response', effects', now)
    /\ UNCHANGED <<now, inflight>>

NextReadBack == SendReadBackTask \/ ObservedFileTool

SpecReadBack == Init /\ [][NextReadBack]_vars

----------------------------------------------------------------------------
(* edit_file and read_file calls running at the same time, each in its own
   worker thread, on one file.  A handler is no longer one step: between its
   system calls the other threads run.  open(path, 'w') truncates the file;
   f.write hands the content to the operating system in one piece or in
   several, each written at the position of the thread's own file object;
   leaving the with block closes the file. *)

ConcurrentBodies ==
    {Body("dict", JStr("edit_file"), "dict",
          [file_path |-> JStr("a.txt"), content |-> JStr(c)]) : c \in {"BB", "CC"}}
        \cup {Body("dict", JStr("read_file"), "dict", [file_path |-> JStr("a.txt")])}

\* A byte the operating system fills a hole with
Hole == "_"

RECURSIVE Holes(_)
Holes(n) == IF n <= 0 THEN "" ELSE Hole \o Holes(n - 1)

\* The file content after write(2) of data at position offset
WriteAt(old, offset, data) ==
    LET before == IF offset <= Len(old) THEN SubSeq(old, 1, offset)
                  ELSE old \o Holes(offset - Len(old))
        after == IF offset + Len(data) < Len(old)
                 THEN SubSeq(old, offset + Len(data) + 1, Len(old))
                 ELSE ""
    IN  before \o data \o after

Finish(t, envelope) ==
    inflight' = [inflight EXCEPT ![t].pc = "done", ![t].result = envelope]

\* The handler is entered: the arguments are extracted and the path is
\* validated (edit_file extracts content before it validates the path)
Begin(t) ==
    /\ inflight[t].pc = "idle"
    /\ \E data \in ConcurrentBodies :
           LET file_path_str == get_tool_arg(data, "file_path", JNone, TRUE, "str")
               content == IF data.tool.val = "edit_file"
                          THEN get_tool_arg(data, "content", JNone, TRUE, "str")
                          ELSE Return(JStr(""))
               target_file_path == _validate_file_path(file_path_str.value.val)
               before == FirstExc(<<file_path_str, content, target_file_path>>)
           IN  IF before.exc # "none"
               THEN inflight' = [inflight EXCEPT ![t].pc = "done",
                                                 ![t].tool = data.tool.val,
                                                 ![t].result = ErrorEnvelope(before.msg)]
               ELSE inflight' = [inflight EXCEPT ![t].pc = "validated",
                                                 ![t].tool = data.tool.val,
                                                 ![t].raw = file_path_str.value.val,
                                                 ![t].content = content.value.val,
                                                 ![t].target = target_file_path.value.val]
    /\ UNCHANGED <<apiKey, fs, request, response, effects, now, monitor>>

\* with open(target_file_path, 'w') as f: the file is created or truncated
OpenForWrite(t) ==
    /\ inflight[t].pc = "validated"
    /\ inflight[t].tool = "edit_file"
    /\ \E io \in {"ok", "eacces"} :
           LET opening == Open(fs, inflight[t].target, "w", io)
           IN  IF opening.exc # "none"
               THEN Finish(t, ErrorEnvelope(opening.msg)) /\ UNCHANGED fs
               ELSE /\ fs' = Written(fs, inflight[t].target, "w", "")
                    /\ inflight' = [inflight EXCEPT ![t].pc = "writing",
                                                    ![t].buffer = inflight[t].content,
                                                    ![t].offset = 0]
    /\ UNCHANGED <<apiKey, request, response, effects, now, monitor>>

\* f.write(content): a piece of the buffer reaches the file
Flush(t) ==
    /\ inflight[t].pc = "writing"
    /\ inflight[t].buffer # ""
    /\ \E n \in 1..Len(inflight[t].buffer) :
           /\ fs' = [fs EXCEPT ![inflight[t].target] =
                         WriteAt(@, inflight[t].offset, SubSeq(inflight[t].buffer, 1, n))]
           /\ inflight' = [inflight EXCEPT
                              ![t].buffer = SubSeq(@, n + 1, Len(@)),
                              ![t].offset = @ + n]
    /\ UNCHANGED <<apiKey, request, response, effects, now, monitor>>

\* The with block is left with everything written; edit_file returns
Close(t) ==
    /\ inflight[t].pc = "writing"
    /\ inflight[t].buffer = ""
    /\ Finish(t, [status |-> "success",
                  message |-> "File '" \o inflight[t].raw \o "' written successfully."])
    /\ UNCHANGED <<apiKey, fs, request, response, effects, now, monitor>>

\* read_file: os.path.exists and os.path.isfile
CheckExists(t) ==
    /\ inflight[t].pc = "validated"
    /\ inflight[t].tool = "read_file"
    /\ IF ~exists(fs, inflight[t].target)
       THEN Finish(t, ErrorEnvelope("File not found: " \o inflight[t].raw))
       ELSE IF ~isfile(fs, inflight[t].target)
       THEN Finish(t, ErrorEnvelope("Path is not a file: " \o inflight[t].raw))
       ELSE inflight' = [inflight EXCEPT ![t].pc = "checked"]
    /\ UNCHANGED <<apiKey, fs, request, response, effects, now, monitor>>

\* with open(target_file_path, 'r') as f: content = f.read(); read_file returns
OpenAndRead(t) ==
    /\ inflight[t].pc = "checked"
    /\ \E io \in {"ok", "eacces"} :
           LET opening == Open(fs, inflight[t].target, "r", io)
           IN  IF opening.exc # "none"
               THEN Finish(t, ErrorEnvelope(opening.msg))
               ELSE Finish(t, [status |-> "success", file_path |-> inflight[t].raw,
                               content |-> fs[inflight[t].target]])
    /\ UNCHANGED <<apiKey, fs, request, response, effects, now, monitor>>

NextConcurrent ==
    \E t \in Threads :
        \/ Begin(t)
        \/ OpenForWrite(t)
        \/ Flush(t)
        \/ Close(t)
        \/ CheckExists(t)
        \/ OpenAndRead(t)

SpecConcurrent == Init /\ [][NextConcurrent]_vars

----------------------------------------------------------------------------
(* Properties *)

IsTask == request.route = "/a2a/task"

\* The request passes the API-key gate: no key is configured, or the header
\* carries the configured key
Authenticated == apiKey = "" \/ request.header = JStr(apiKey)

NoProcessStarted == \A i \in 1..Len(effects.cmds) : ~effects.cmds[i].started

SomeProcessStarted == \E i \in 1..Len(effects.cmds) : effects.cmds[i].started

\* C1: when an API key is configured, every answered POST /a2a/task request
\* whose X-API-KEY header is absent or differs from the configured key has
\* HTTP 401 and an envelope with status "error", and no tool handler was
\* entered, no external command run and no file opened for it.
C1_Unauthorized ==
    (/\ Answered
     /\ IsTask
     /\ apiKey # ""
     /\ (request.header.type = "absent" \/ request.header.val # apiKey))
        => /\ response.code = 401
           /\ response.body.status = "error"
           /\ effects.handler = ""
           /\ effects.cmds = <<>>
           /\ effects.opened = {}

\* A well-formed edit_file request sent with a wrong key has been refused
C1_Witness ==
    /\ Answered
    /\ IsTask
    /\ apiKey = "test-key"
    /\ request.header = JStr("wrong-key")
    /\ ToolOf(request) = "edit_file"
    /\ request.body.argsKind = "dict"
    /\ DOMAIN request.body.args = {"file_path", "content"}
    /\ response.code = 401

\* The real path _validate_file_path computes for a raw file_path
Resolved(file_path_str) ==
    realpath(join(SAFE_BASE_PATH, normpath(lstrip(file_path_str, {"/", "\\"}))))

\* C2: a file tool opens a file only if the fully resolved real path of its
\* file_path is the sandbox root or a descendant of it; every other path
\* (behind a symlink, or in a sibling directory whose name starts with the
\* root's name) yields an error envelope and no file is opened.
C2_Sandbox ==
    (Answered /\ IsTask)
        => /\ \A o \in effects.opened : InsideSandbox(o.path)
           /\ (/\ ToolOf(request) \in FileTools
               /\ request.body.argsKind = "dict"
               /\ "file_path" \in DOMAIN request.body.args
               /\ request.body.args["file_path"].type = "str"
               /\ ~InsideSandbox(Resolved(request.body.args["file_path"].val)))
                  => /\ response.body.status = "error"
                     /\ effects.opened = {}

\* C3: an authenticated create_wordpress_post request with string title and
\* content and neither status nor post_type, the external command succeeding
\* and printing the id 123, has HTTP 200, status "success" and post_id "123",
\* the command having been run with the defaults publish and post.
C3_PostDefaults ==
    (/\ Answered
     /\ IsTask
     /\ Authenticated
     /\ ToolOf(request) = "create_wordpress_post"
     /\ request.body.argsKind = "dict"
     /\ DOMAIN request.body.args = {"title", "content"}
     /\ request.body.args["title"].type = "str"
     /\ request.body.args["content"].type = "str"
     /\ effects.env.procs = <<OkId>>)
        => /\ response.code = 200
           /\ response.body.status = "success"
           /\ response.body.post_id = "123"
           /\ Len(effects.cmds) = 1
           /\ \E i \in 1..Len(effects.cmds[1].argv) :
                  effects.cmds[1].argv[i] = "--post_status=publish"
           /\ \E i \in 1..Len(effects.cmds[1].argv) :
                  effects.cmds[1].argv[i] = "--post_type=post"

\* C4: an authenticated request whose tool field names a tool that is not in
\* the registry has HTTP 404 and the envelope {status: "error", message:
\* "Unknown tool: <name>"} and no handler was entered; a request naming a
\* registered tool never has HTTP 404.
C4_UnknownTool ==
    (Answered /\ IsTask /\ Authenticated /\ request.body.kind = "dict")
        => /\ (/\ request.body.tool.type \in {"str", "int"}
               /\ Truthy(request.body.tool)
               /\ ~(request.body.tool.type = "str" /\ request.body.tool.val \in TOOLS))
                  => /\ response.code = 404
                     /\ response.body =
                            [status |-> "error",
                             message |-> "Unknown tool: " \o request.body.tool.val]
                     /\ effects.handler = ""
           /\ ToolOf(request) \in TOOLS => response.code # 404

\* An authenticated request naming nonexistent_tool has been answered 404
C4_Witness ==
    /\ Answered
    /\ IsTask
    /\ apiKey = "test-key"
    /\ request.header = JStr("test-key")
    /\ request.body.kind = "dict"
    /\ request.body.tool = JStr("nonexistent_tool")
    /\ response.code = 404
    /\ response.body.message = "Unknown tool: nonexistent_tool"

\* C5: a validation failure raised while a registered tool's arguments are
\* extracted is caught by the dispatcher, not by the handler, and the
\* response is HTTP 400 with the message "Invalid tool arguments: <detail>".
C5_ValidationAtDispatcher ==
    (Answered /\ IsTask /\ effects.raised = "ValueError")
        => /\ effects.caught_by = "dispatcher"
           /\ response.code = 400
           /\ response.body.status = "error"
           /\ StartsWith(response.body.message, "Invalid tool arguments: ")

\* The arguments each handler extracts with required=True (the default of
\* get_tool_arg's signature where the call does not say)
RequiredArgs(tool) ==
    CASE tool = "create_wordpress_post" -> {"title", "content", "status", "post_type"}
      [] tool \in PluginTools -> {"plugin_slug"}
      [] tool \in ThemeTools -> {"theme_slug"}
      [] tool = "get_wordpress_option" -> {"option_name"}
      [] tool = "update_wordpress_option" -> {"option_name", "option_value"}
      [] tool = "read_file" -> {"file_path"}
      [] tool \in {"edit_file", "append_to_file"} -> {"file_path", "content"}
      [] OTHER -> {}

\* C6: a request to a registered tool in which an argument declared required
\* is absent from args is rejected with a validation error: the envelope has
\* status "error" and a validation message, no external command was run and
\* no file opened (so no default stood in for the missing argument).
C6_MissingRequired ==
    (/\ Answered
     /\ IsTask
     /\ Authenticated
     /\ ToolOf(request) \in TOOLS
     /\ request.body.argsKind \in {"absent", "dict"}
     /\ RequiredArgs(ToolOf(request)) \ DOMAIN request.body.args # {})
        => /\ response.body.status = "error"
           /\ effects.raised = "ValueError"
           /\ \/ StartsWith(response.body.message, "Missing required argument: ")
              \/ StartsWith(response.body.message, "Argument '")
           /\ effects.cmds = <<>>
           /\ effects.opened = {}

\* A create_wordpress_post request with a title and no content has been
\* rejected although the external command was ready to succeed
C6_Witness ==
    /\ Answered
    /\ IsTask
    /\ Authenticated
    /\ ToolOf(request) = "create_wordpress_post"
    /\ request.body.argsKind = "dict"
    /\ DOMAIN request.body.args = {"title"}
    /\ request.body.args["title"] = JStr("Test Post")
    /\ effects.env.procs = <<OkId>>
    /\ response.body = [status |-> "error",
                        message |-> "Missing required argument: content"]
    /\ effects.cmds = <<>>

\* C7: every response to POST /a2a/task is an envelope in which status is
\* present and is "success" or "error", and every envelope with status
\* "error" carries a message.
C7_Envelope ==
    (Answered /\ IsTask)
        => /\ "status" \in DOMAIN response.body
           /\ response.body.status \in {"success", "error"}
           /\ response.body.status = "error" => "message" \in DOMAIN response.body

\* The external command of a handler exited nonzero and the response is an
\* error envelope carrying what it wrote to stderr
C7_Witness ==
    /\ Answered
    /\ IsTask
    /\ effects.handler = "activate_wordpress_plugin"
    /\ Len(effects.cmds) = 1
    /\ effects.cmds[1].rc = 1
    /\ response.body = [status |-> "error", message |-> "WP-CLI Error: Error: failed."]

\* C8: after 5 consecutive nonzero exits of the external command, an
\* invocation within 60 seconds of the last failure fails without the
\* external process being started; once 60 seconds have passed the
\* invocation is let through to the process.
C8_CircuitBreaker ==
    (Answered /\ IsTask /\ effects.handler # "" /\ monitor.saw.failRun >= 5)
        => /\ monitor.saw.sinceFail <= 60
                  => (NoProcessStarted /\ response.body.status = "error")
           /\ monitor.saw.sinceFail > 60 => SomeProcessStarted

\* C9: a get_wordpress_option invocation identical to the successful one
\* just before it, within the TTL of 600 seconds, starts no external
\* process; a get_wordpress_option that follows a successful
\* update_wordpress_option starts the external process.
C9_CacheIdempotence ==
    (Answered /\ IsTask /\ ToolOf(request) = "get_wordpress_option")
        => /\ (monitor.saw.sameRead /\ monitor.saw.readAge <= 600) => NoProcessStarted
           /\ monitor.saw.mutated => SomeProcessStarted

\* C10: an edit_file that succeeds on a file that already exists leaves
\* exactly one new file, holding the content the target had before the write.
C10_BackupBeforeWrite ==
    [][(/\ Pending
        /\ ToolOf(request) = "edit_file"
        /\ response'.body.status = "success"
        /\ \E o \in effects'.opened : o.path \in DOMAIN fs)
           => /\ Cardinality(DOMAIN fs' \ DOMAIN fs) = 1
              /\ \A o \in effects'.opened :
                     \E b \in DOMAIN fs' \ DOMAIN fs : fs'[b] = fs[o.path]]_vars

\* The digest of a content, as the write result is to carry it: equal for
\* equal contents, different for different ones
Digest(content) == "sha256:" \o content

\* An edit_file succeeded and the read_file handled now names the same
\* file_path, the operating system letting it open the file
ReadsBack ==
    /\ ToolOf(request) = "read_file"
    /\ monitor.saw.lastWrite # <<>>
    /\ request.body.argsKind = "dict"
    /\ "file_path" \in DOMAIN request.body.args
    /\ request.body.args["file_path"] = monitor.saw.lastWrite[1]["file_path"]
    /\ effects.env.io = "ok"

\* C11: the result of an edit_file that succeeds carries a hash equal to the
\* digest of the content written, and a read_file of the same path handled
\* right after it has status "success" and the content that was written.
C11_ReadAfterWrite ==
    (Answered /\ IsTask)
        => /\ (ToolOf(request) = "edit_file" /\ response.body.status = "success")
                  => /\ "hash" \in DOMAIN response.body
                     /\ response.body.hash = Digest(request.body.args["content"].val)
           /\ ReadsBack
                  => /\ response.body.status = "success"
                     /\ response.body.content = monitor.saw.lastWrite[1]["content"].val

\* What a failed WP-CLI process leaves to report: its stderr, or its stdout
\* when stderr is empty
Captured(cmd) == IF strip(cmd.err) # "" THEN strip(cmd.err) ELSE strip(cmd.out)

\* C12: when a WP-CLI process run for a tool exits nonzero, the response has
\* HTTP 200 and an envelope with status "error" whose message carries the
\* captured stderr (stdout when stderr is empty); the exception was caught
\* by the handler, not by the dispatcher's catch-all.
C12_NonzeroExitHandled ==
    (Answered /\ IsTask)
        => \A i \in 1..Len(effects.cmds) :
               (/\ effects.cmds[i].argv[1] = "wp"
                /\ effects.cmds[i].started
                /\ effects.cmds[i].rc # 0)
                   => /\ response.code = 200
                      /\ response.body.status = "error"
                      /\ response.body.message
                             = "WP-CLI Error: " \o Captured(effects.cmds[i])
                      /\ effects.caught_by = "handler"

\* wp plugin delete exited 1 with empty stderr and the response reports what
\* it wrote to stdout
C12_Witness ==
    /\ Answered
    /\ IsTask
    /\ effects.handler = "delete_wordpress_plugin"
    /\ Len(effects.cmds) = 1
    /\ effects.cmds[1].rc = 1
    /\ effects.cmds[1].err = ""
    /\ response.code = 200
    /\ response.body = [status |-> "error", message |-> "WP-CLI Error: partial"]

\* Every command of get_system_information exited zero, wp cli info printing
\* a JSON object
SysCommandsSucceed ==
    /\ Len(effects.env.procs) = 5
    /\ \A i \in 1..5 : effects.env.procs[i].kind = "exit" /\ effects.env.procs[i].rc = 0
    /\ JsonLoads(strip(effects.env.procs[3].out)).value.type = "dict"

\* One of the commands get_system_information ran could not be started or
\* exited nonzero
SysCommandFailed ==
    \E i \in 1..Len(effects.cmds) : ~effects.cmds[i].started \/ effects.cmds[i].rc # 0

C14_CheckOrder ==
    (Answered /\ IsTask)
        => /\ ~Authenticated => (response.code = 401 /\ effects.handler = "")
           /\ (Authenticated /\ request.body.kind \in {"unparseable", "falsy"})
                  => /\ response.code = 400
                     /\ response.body.message = "Invalid JSON payload"
                     /\ effects.handler = ""
           /\ (/\ Authenticated
               /\ request.body.kind = "dict"
               /\ ~Truthy(Get(request.body.tool)))
                  => /\ response.code = 400
                     /\ response.body.message = "Missing 'tool' field in request"
                     /\ effects.handler = ""

\* A request failing authentication and parsing at once has been answered
\* for authentication
C14_Witness ==
    /\ Answered
    /\ IsTask
    /\ apiKey = "test-key"
    /\ request.header = JStr("wrong-key")
    /\ request.body.kind = "unparseable"
    /\ response.code = 401

\* The contents the edit_file calls under way or finished are writing
WrittenContents ==
    {inflight[u].content : u \in {v \in Threads : inflight[v].tool = "edit_file"}}

\* The edit_file calls that returned success
Writers ==
    {t \in Threads : /\ inflight[t].tool = "edit_file"
                     /\ inflight[t].pc = "done"
                     /\ inflight[t].result.status = "success"}

\* C15: with edit_file and read_file calls on one existing file running
\* concurrently, a read_file never finds the file missing, and the content
\* it returns is the whole content from before the writes or the whole
\* content of one of them; when every call has returned the file holds the
\* content of one of the writes.
C15_AtomicReadWrite ==
    /\ \A t \in Threads :
           (inflight[t].pc = "done" /\ inflight[t].tool = "read_file")
               => /\ inflight[t].result
                         # ErrorEnvelope("File not found: " \o inflight[t].raw)
                  /\ inflight[t].result.status = "success"
                         => inflight[t].result.content
                                \in {InitialFiles[inflight[t].target]} \cup WrittenContents
    /\ ((\A t \in Threads : inflight[t].pc \in {"idle", "done"}) /\ Writers # {})
           => \A t \in Writers :
                  fs[inflight[t].target] \in {inflight[u].content : u \in Writers}

====
